---- MODULE Spec2Model ----
(***************************************************************************)
(* Model of the Rockchip RK30XX watchdog driver (rk30xx_wdog.c):           *)
(*   rk30_wd_attach          binds the single controller                   *)
(*   rk30_wd_watchdog_fn     watchdog(9) event handler: arm / disarm       *)
(*   rk30_wd_watchdog_reset  last-resort reset through the watchdog        *)
(* Register writes are recorded in program order in `writes`; every        *)
(* handler invocation is recorded in `calls`.                              *)
(***************************************************************************)
EXTENDS Integers, Sequences, FiniteSets, TLC

\* ------------------------------------------------------------------ bounds
MaxCalls == 2      \* invocations of the event handler, each on its own thread
NDevs    == 2      \* device nodes on which attach is tried

Devs    == 1..NDevs

\* ------------------------------------------------------- program constants
NULL                == 0
ENXIO               == 6
WD_INTERVAL         == 255
WDOG_CTRL           == 0
WDOG_CTRL_EN        == 1
WDOG_CTRL_RSP_MODE  == 2
WDOG_CTRL_RST_PULSE == 16
WDOG_TORR           == 4
WDOG_TORR_INTVL_SHIFT == 0
WDOG_CRR            == 12
WDOG_CRR_MAGIC      == 118
WDOG_CTRL_OFF       == 10
Million             == 1000000
ShiftWidth          == 64
SentinelIdx         == 16

Regs == {WDOG_CTRL, WDOG_TORR, WDOG_CRR}

\* WDOG_CTRL_EN | WDOG_CTRL_RSP_MODE | WDOG_CTRL_RST_PULSE: the three masks
\* have no bit in common, so the bitwise or is their sum (0x13).
WDOG_CTRL_ARM == WDOG_CTRL_EN + WDOG_CTRL_RSP_MODE + WDOG_CTRL_RST_PULSE

\* struct rk30_wd_interval wd_intervals[], indexed from 0 as in C.
IntervalRows ==
  << <<2730, 0>>,      <<5460, 1>>,      <<10920, 2>>,     <<21840, 3>>,
     <<43680, 4>>,     <<87360, 5>>,     <<174720, 6>>,    <<349440, 7>>,
     <<698880, 8>>,    <<1397760, 9>>,   <<2795520, 10>>,  <<5591040, 11>>,
     <<11182080, 12>>, <<22364160, 13>>, <<44728320, 14>>, <<89456640, 15>>,
     <<0, 0>> >>

wd_intervals ==
  [i \in 0..(Len(IntervalRows) - 1) |->
      [milliseconds |-> IntervalRows[i + 1][1], value |-> IntervalRows[i + 1][2]]]

MaxThresholdMs == wd_intervals[SentinelIdx - 1].milliseconds

\* v << s for the shifts the driver uses (value << WDOG_TORR_INTVL_SHIFT).
RECURSIVE Shl(_, _)
Shl(v, s) == IF s = 0 THEN v ELSE Shl(2 * v, s - 1)

\* ------------------------------------------------- ms = (1 << cmd) / 1000000
\* The quotient is carried through the doublings as (quotient, remainder) so
\* that no intermediate exceeds the model checker's 32-bit integers.  A quotient is only
\* ever compared with table thresholds, all <= MaxThresholdMs, so quotients
\* from MsSat upwards are represented by MsSat itself.
MsSat == 4 * MaxThresholdMs

\* n more doublings of a power of two whose quotient by Million is q and
\* whose remainder is r.
RECURSIVE Pow2DivMillion(_, _, _)
Pow2DivMillion(n, q, r) ==
  IF q >= MsSat THEN MsSat
  ELSE IF n = 0 THEN q
  ELSE Pow2DivMillion(n - 1, 2 * q + ((2 * r) \div Million), (2 * r) % Million)

\* floor(2^e / 1000000), saturated at MsSat
TrueMs(e) == Pow2DivMillion(e, 0, 1)

\* cmd &= WD_INTERVAL: WD_INTERVAL is a mask of the low bits.
\* Mutant: cmd is used as passed, flag bits included.
MaskInterval_None(cmd) == cmd

MaskInterval(cmd) == cmd % (WD_INTERVAL + 1)

\* ((uint64_t)1 << cmd) / 1000000.  A shift count of 64 or more is undefined
\* in C: the outcomes are the ones the shifter hardware produces, a result of
\* zero (count taken in full, "zero") or a shift by the count modulo the
\* width ("wrap").  One build does the same at every call: shl_ub keeps the
\* mode once a call has run a shift on which the two modes differ.
ShiftModes == {"zero", "wrap"}

\* The quotient for every defined shift count, computed once.
MsTable == [e \in 0..(ShiftWidth - 1) |-> TrueMs(e)]

MsFor(c, mode) ==
  IF c < ShiftWidth THEN MsTable[c]
  ELSE IF mode = "zero" THEN 0 ELSE MsTable[c % ShiftWidth]

MsOutcomes(c) == {MsFor(c, mode) : mode \in ShiftModes}

\* ------------------------------------------------------------ table scan
\* Mutant: the comparison is >=, so an exact boundary moves on to the next entry.
ScanCond_Ge(i, ms) ==
  /\ wd_intervals[i].milliseconds # 0
  /\ ms >= wd_intervals[i].milliseconds

\* while (wd_intervals[i].milliseconds && (ms > wd_intervals[i].milliseconds))
ScanCond(i, ms) ==
  /\ wd_intervals[i].milliseconds # 0
  /\ ms > wd_intervals[i].milliseconds

RECURSIVE Scan(_, _)
Scan(i, ms) == IF ScanCond(i, ms) THEN Scan(i + 1, ms) ELSE i

\* Mutant: the test after the loop looks at the index, not at the sentinel's
\* zero threshold, and takes the sentinel for an entry.
Matched_ByIndex(i) == i <= SentinelIdx

\* if (wd_intervals[i].milliseconds)
Matched(i) == wd_intervals[i].milliseconds # 0

\* ------------------------------------------------------------------ state
VARIABLES
  rk30_wd_sc,   \* static struct rk30_wd_softc *rk30_wd_sc: NULL or a device
  softc,        \* per device: dev, res, and the mutex (initialised?, owner)
  handlers,     \* softcs registered on watchdog_list (the handler's private)
  aret,         \* per device: what rk30_wd_attach returned, "none" before
  regs,         \* per device: the registers behind sc->res
  writes,       \* every bus_write_4, in the order the bus sees them
  calls,        \* every rk30_wd_watchdog_fn invocation, with its locals
  rpc,          \* where the thread in rk30_wd_watchdog_reset is
  shl_ub,       \* what this build's undefined shift does, "unset" until one runs
  scan_ms,      \* table scan on its own: the requested milliseconds
  scan_i,       \*   the index i
  scan_pc       \*   "scan" in the while loop, then "hit" or "miss"

drvvars  == <<rk30_wd_sc, softc, handlers, aret, regs, writes, calls, rpc, shl_ub>>
scanvars == <<scan_ms, scan_i, scan_pc>>
vars     == <<rk30_wd_sc, softc, handlers, aret, regs, writes, calls, rpc, shl_ub,
              scan_ms, scan_i, scan_pc>>

\* Inputs of the handler: 0 disarms, and so does a flag bit above the
\* interval field with the field zero; 33 asks for 8589 ms; 47 is the first
\* exponent beyond the table; 64 is the first undefined shift count.
CmdInputs == {0, WD_INTERVAL + 1, 33, 47, 64}

\* int *error as the caller of the handler list presets it: 0 or an errno.
ErrInputs == {0, ENXIO}

\* Every value of the WD_INTERVAL field, without and with the lowest bit
\* outside the field (the other bits of cmd carry flags), and the same cmd
\* with that bit flipped.
AllCmds == 0..(2 * (WD_INTERVAL + 1) - 1)

FlagTwin(cmd) ==
  IF cmd > WD_INTERVAL THEN cmd - (WD_INTERVAL + 1) ELSE cmd + (WD_INTERVAL + 1)

\* RK30_WDT_WRITE(sc, r, v): one bus write, recorded with the owner of the
\* softc's mutex at that moment.
BusWrite(fn, c, sc, r, v) ==
  /\ regs'   = [regs EXCEPT ![sc][r] = v]
  /\ writes' = Append(writes, [fn |-> fn, call |-> c, sc |-> sc, reg |-> r,
                               val |-> v, owner |-> softc[sc].mtx_owner])

Init ==
  /\ rk30_wd_sc = NULL
  /\ softc    = [d \in Devs |->
                   [dev |-> NULL, res |-> FALSE, mtx_init |-> FALSE, mtx_owner |-> NULL]]
  /\ handlers = {}
  /\ aret     = [d \in Devs |-> "none"]
  \* the peripheral comes up disabled, nothing in TORR, CRR never written
  /\ regs     = [d \in Devs |-> [r \in Regs |-> IF r = WDOG_CTRL THEN WDOG_CTRL_OFF ELSE 0]]
  /\ writes   = << >>
  /\ calls    = << >>
  /\ rpc      = "idle"
  /\ shl_ub   = "unset"
  /\ scan_ms  = 0
  /\ scan_i   = 0
  /\ scan_pc  = "off"

\* ---------------------------------------------------------- rk30_wd_attach
\* Mutant: no test of rk30_wd_sc, a later attach binds its own device.
attach_bound_Rebinds(d) ==
  /\ aret[d] = "none"
  /\ rk30_wd_sc # NULL
  /\ softc' = [softc EXCEPT ![d] =
                 [dev |-> d, res |-> TRUE, mtx_init |-> TRUE, mtx_owner |-> NULL]]
  /\ rk30_wd_sc' = d
  /\ handlers'   = handlers \cup {d}
  /\ aret'       = [aret EXCEPT ![d] = "ok"]
  /\ UNCHANGED <<regs, writes, calls, rpc, shl_ub, scanvars>>

\* if (rk30_wd_sc != NULL) return (ENXIO);
attach_bound(d) ==
  /\ aret[d] = "none"
  /\ rk30_wd_sc # NULL
  /\ aret' = [aret EXCEPT ![d] = "ENXIO"]
  /\ UNCHANGED <<rk30_wd_sc, softc, handlers, regs, writes, calls, rpc, shl_ub, scanvars>>

\* sc->dev = dev; bus_alloc_resource_any() returns NULL: return (ENXIO);
attach_nores(d) ==
  /\ aret[d] = "none"
  /\ rk30_wd_sc = NULL
  /\ softc' = [softc EXCEPT ![d].dev = d]
  /\ aret'  = [aret EXCEPT ![d] = "ENXIO"]
  /\ UNCHANGED <<rk30_wd_sc, handlers, regs, writes, calls, rpc, shl_ub, scanvars>>

\* resource allocated: rk30_wd_sc = sc; mtx_init(); EVENTHANDLER_REGISTER();
attach_ok(d) ==
  /\ aret[d] = "none"
  /\ rk30_wd_sc = NULL
  /\ softc' = [softc EXCEPT ![d] =
                 [dev |-> d, res |-> TRUE, mtx_init |-> TRUE, mtx_owner |-> NULL]]
  /\ rk30_wd_sc' = d
  /\ handlers'   = handlers \cup {d}
  /\ aret'       = [aret EXCEPT ![d] = "ok"]
  /\ UNCHANGED <<regs, writes, calls, rpc, shl_ub, scanvars>>

rk30_wd_attach(d) == attach_bound(d) \/ attach_nores(d) \/ attach_ok(d)

\* The same function statement by statement, for attach calls that overlap:
\* the function takes no lock, so another call can run between any two of
\* its statements.  aret[d] is then the position of the call for device d:
\* "alloc", "publish", "init", "register" name the statement it is about to
\* execute; "ok" and "ENXIO" are what it returned.
\* if (rk30_wd_sc != NULL) return (ENXIO);
at_check(d) ==
  /\ aret[d] = "none"
  /\ aret' = [aret EXCEPT ![d] = IF rk30_wd_sc # NULL THEN "ENXIO" ELSE "alloc"]
  /\ UNCHANGED <<rk30_wd_sc, softc, handlers, regs, writes, calls, rpc, shl_ub, scanvars>>

\* sc->dev = dev; sc->res = bus_alloc_resource_any(); if (sc->res == NULL) return (ENXIO);
at_alloc(d) ==
  /\ aret[d] = "alloc"
  /\ \E got \in BOOLEAN :
        /\ softc' = [softc EXCEPT ![d].dev = d, ![d].res = got]
        /\ aret'  = [aret EXCEPT ![d] = IF got THEN "publish" ELSE "ENXIO"]
  /\ UNCHANGED <<rk30_wd_sc, handlers, regs, writes, calls, rpc, shl_ub, scanvars>>

\* rk30_wd_sc = sc;
at_publish(d) ==
  /\ aret[d] = "publish"
  /\ rk30_wd_sc' = d
  /\ aret' = [aret EXCEPT ![d] = "init"]
  /\ UNCHANGED <<softc, handlers, regs, writes, calls, rpc, shl_ub, scanvars>>

\* mtx_init(&sc->mtx, "RK30XX Watchdog", "rk30_wd", MTX_DEF);
at_mtx_init(d) ==
  /\ aret[d] = "init"
  /\ softc' = [softc EXCEPT ![d].mtx_init = TRUE, ![d].mtx_owner = NULL]
  /\ aret' = [aret EXCEPT ![d] = "register"]
  /\ UNCHANGED <<rk30_wd_sc, handlers, regs, writes, calls, rpc, shl_ub, scanvars>>

\* EVENTHANDLER_REGISTER(watchdog_list, rk30_wd_watchdog_fn, sc, 0); return (0);
at_register(d) ==
  /\ aret[d] = "register"
  /\ handlers' = handlers \cup {d}
  /\ aret' = [aret EXCEPT ![d] = "ok"]
  /\ UNCHANGED <<rk30_wd_sc, softc, regs, writes, calls, rpc, shl_ub, scanvars>>

rk30_wd_attach_steps(d) ==
  \/ at_check(d)
  \/ at_alloc(d)
  \/ at_publish(d)
  \/ at_mtx_init(d)
  \/ at_register(d)

\* ----------------------------------------------------- rk30_wd_watchdog_fn
\* A call is a record: sc (private), cmd (as passed), errin (the preset
\* *error), error (*error now), ms and i (the locals), pc, path taken, and
\* late (the reset function had already been entered when it was invoked).
LockedBy(c) == softc[calls[c].sc].mtx_owner = c

\* Call c has been invoked and is at p.
At(c, p) == c <= Len(calls) /\ calls[c].pc = p

\* A new call of the handler with private sc, cmd and *error = e.  Beside
\* its locals the record keeps late: the reset function had been entered when
\* the call was invoked.
NewCall(sc, cmd, e) ==
  [sc |-> sc, cmd |-> cmd, errin |-> e, error |-> e, ms |-> 0, i |-> 0,
   pc |-> "lock", path |-> "none", lockord |-> 0,
   late |-> rpc \notin {"idle", "returned"}]

\* The handler invoked only when every earlier call has returned: the first
\* call with any cmd of AllCmds, a later one with a cmd of CmdInputs or the
\* flag twin of the call before it.
fn_invoke_seq ==
  /\ Len(calls) < MaxCalls
  /\ \A c \in 1..Len(calls) : calls[c].pc = "done"
  /\ \E sc \in handlers, e \in ErrInputs :
       \E cmd \in (IF calls = << >> THEN AllCmds
                    ELSE CmdInputs \cup {FlagTwin(calls[Len(calls)].cmd)}) :
          calls' = Append(calls, NewCall(sc, cmd, e))
  /\ UNCHANGED <<rk30_wd_sc, softc, handlers, aret, regs, writes, rpc, shl_ub, scanvars>>

\* The event handler list invokes the handler of a registered softc.
fn_invoke ==
  /\ Len(calls) < MaxCalls
  /\ \E sc \in handlers, cmd \in CmdInputs, e \in ErrInputs :
        calls' = Append(calls, NewCall(sc, cmd, e))
  /\ UNCHANGED <<rk30_wd_sc, softc, handlers, aret, regs, writes, rpc, shl_ub, scanvars>>

\* mtx_lock(&sc->mtx): blocks until the mutex is unowned.  lockord numbers
\* the acquisitions in the order they happen.
fn_lock(c) ==
  /\ At(c, "lock")
  /\ softc[calls[c].sc].mtx_owner = NULL
  /\ softc' = [softc EXCEPT ![calls[c].sc].mtx_owner = c]
  /\ calls' = [calls EXCEPT ![c].pc = "resolve",
                            ![c].lockord = 1 + Cardinality({k \in 1..Len(calls) :
                                                             calls[k].lockord > 0})]
  /\ UNCHANGED <<rk30_wd_sc, handlers, aret, regs, writes, rpc, shl_ub, scanvars>>

\* cmd &= WD_INTERVAL; if (cmd > 0) { ms = ...; i = 0; while ... i++; if ... }
\* Where the call goes next, given the masked cmd and the scan's result.
Branch(m, i) ==
  IF m > 0 THEN (IF Matched(i) THEN "arm_torr" ELSE "cant_unlock")
           ELSE "off_ctrl"

fn_resolve(c) ==
  /\ At(c, "resolve")
  /\ LET m == MaskInterval(calls[c].cmd) IN
       \E mode \in (IF shl_ub = "unset" THEN ShiftModes ELSE {shl_ub}) :
         LET ms == IF m > 0 THEN MsFor(m, mode) ELSE 0
             i  == IF m > 0 THEN Scan(0, ms) ELSE 0
         IN  /\ calls' = [calls EXCEPT ![c].ms = ms, ![c].i = i, ![c].pc = Branch(m, i)]
             /\ shl_ub' = IF Cardinality(MsOutcomes(m)) > 1 THEN mode ELSE shl_ub
  /\ UNCHANGED <<rk30_wd_sc, softc, handlers, aret, regs, writes, rpc, scanvars>>

\* Mutant: TORR is programmed only while it still holds nothing.
fn_arm_torr_Once(c) ==
  /\ At(c, "arm_torr")
  /\ IF regs[calls[c].sc][WDOG_TORR] = 0
       THEN BusWrite("fn", c, calls[c].sc, WDOG_TORR,
                     Shl(wd_intervals[calls[c].i].value, WDOG_TORR_INTVL_SHIFT))
       ELSE UNCHANGED <<regs, writes>>
  /\ calls' = [calls EXCEPT ![c].pc = "arm_ctrl", ![c].path = "arm"]
  /\ UNCHANGED <<rk30_wd_sc, softc, handlers, aret, rpc, shl_ub, scanvars>>

\* RK30_WDT_WRITE(sc, WDOG_TORR, wd_intervals[i].value << WDOG_TORR_INTVL_SHIFT);
fn_arm_torr(c) ==
  /\ At(c, "arm_torr")
  /\ BusWrite("fn", c, calls[c].sc, WDOG_TORR,
              Shl(wd_intervals[calls[c].i].value, WDOG_TORR_INTVL_SHIFT))
  /\ calls' = [calls EXCEPT ![c].pc = "arm_ctrl", ![c].path = "arm"]
  /\ UNCHANGED <<rk30_wd_sc, softc, handlers, aret, rpc, shl_ub, scanvars>>

\* Mutant: only the enable bit is written to CTRL.
fn_arm_ctrl_EnOnly(c) ==
  /\ At(c, "arm_ctrl")
  /\ BusWrite("fn", c, calls[c].sc, WDOG_CTRL, WDOG_CTRL_EN)
  /\ calls' = [calls EXCEPT ![c].pc = "arm_crr"]
  /\ UNCHANGED <<rk30_wd_sc, softc, handlers, aret, rpc, shl_ub, scanvars>>

\* RK30_WDT_WRITE(sc, WDOG_CTRL, EN | RSP_MODE | RST_PULSE);
fn_arm_ctrl(c) ==
  /\ At(c, "arm_ctrl")
  /\ BusWrite("fn", c, calls[c].sc, WDOG_CTRL, WDOG_CTRL_ARM)
  /\ calls' = [calls EXCEPT ![c].pc = "arm_crr"]
  /\ UNCHANGED <<rk30_wd_sc, softc, handlers, aret, rpc, shl_ub, scanvars>>

\* RK30_WDT_WRITE(sc, WDOG_CRR, 0x76); *error = 0;
fn_arm_crr(c) ==
  /\ At(c, "arm_crr")
  /\ BusWrite("fn", c, calls[c].sc, WDOG_CRR, WDOG_CRR_MAGIC)
  /\ calls' = [calls EXCEPT ![c].pc = "unlock", ![c].error = 0]
  /\ UNCHANGED <<rk30_wd_sc, softc, handlers, aret, rpc, shl_ub, scanvars>>

\* Mutant: the disarm path clears the interval instead of writing CTRL.
fn_off_ctrl_ZeroesTorr(c) ==
  /\ At(c, "off_ctrl")
  /\ BusWrite("fn", c, calls[c].sc, WDOG_TORR, 0)
  /\ calls' = [calls EXCEPT ![c].pc = "unlock", ![c].path = "off"]
  /\ UNCHANGED <<rk30_wd_sc, softc, handlers, aret, rpc, shl_ub, scanvars>>

\* Mutant: the disable write is skipped when CTRL already holds 0x0a.
fn_off_ctrl_IfArmed(c) ==
  /\ At(c, "off_ctrl")
  /\ IF regs[calls[c].sc][WDOG_CTRL] = WDOG_CTRL_OFF
     THEN UNCHANGED <<regs, writes>>
     ELSE BusWrite("fn", c, calls[c].sc, WDOG_CTRL, WDOG_CTRL_OFF)
  /\ calls' = [calls EXCEPT ![c].pc = "unlock", ![c].path = "off"]
  /\ UNCHANGED <<rk30_wd_sc, softc, handlers, aret, rpc, shl_ub, scanvars>>

\* else RK30_WDT_WRITE(sc, WDOG_CTRL, 0xa);   (cmd == 0)
fn_off_ctrl(c) ==
  /\ At(c, "off_ctrl")
  /\ BusWrite("fn", c, calls[c].sc, WDOG_CTRL, WDOG_CTRL_OFF)
  /\ calls' = [calls EXCEPT ![c].pc = "unlock", ![c].path = "off"]
  /\ UNCHANGED <<rk30_wd_sc, softc, handlers, aret, rpc, shl_ub, scanvars>>

\* Mutant: the function returns at its end without releasing the mutex.
fn_unlock_Keeps(c) ==
  /\ At(c, "unlock")
  /\ calls' = [calls EXCEPT ![c].pc = "done"]
  /\ UNCHANGED <<rk30_wd_sc, softc, handlers, aret, regs, writes, rpc, shl_ub, scanvars>>

\* mtx_unlock(&sc->mtx); at the end of the function, then it returns.
fn_unlock(c) ==
  /\ At(c, "unlock")
  /\ softc' = [softc EXCEPT ![calls[c].sc].mtx_owner = NULL]
  /\ calls' = [calls EXCEPT ![c].pc = "done"]
  /\ UNCHANGED <<rk30_wd_sc, handlers, aret, regs, writes, rpc, shl_ub, scanvars>>

\* "Can't arm": device_printf(); mtx_unlock(&sc->mtx);
fn_cant_unlock(c) ==
  /\ At(c, "cant_unlock")
  /\ softc' = [softc EXCEPT ![calls[c].sc].mtx_owner = NULL]
  /\ calls' = [calls EXCEPT ![c].pc = "cant_ctrl", ![c].path = "cant"]
  /\ UNCHANGED <<rk30_wd_sc, handlers, aret, regs, writes, rpc, shl_ub, scanvars>>

\* Mutant: the cannot-arm path reports success through *error.
fn_cant_ctrl_ClearsError(c) ==
  /\ At(c, "cant_ctrl")
  /\ BusWrite("fn", c, calls[c].sc, WDOG_CTRL, WDOG_CTRL_OFF)
  /\ calls' = [calls EXCEPT ![c].pc = "done", ![c].error = 0]
  /\ UNCHANGED <<rk30_wd_sc, softc, handlers, aret, rpc, shl_ub, scanvars>>

\* RK30_WDT_WRITE(sc, WDOG_CTRL, 0xa); return;   (after the unlock)
fn_cant_ctrl(c) ==
  /\ At(c, "cant_ctrl")
  /\ BusWrite("fn", c, calls[c].sc, WDOG_CTRL, WDOG_CTRL_OFF)
  /\ calls' = [calls EXCEPT ![c].pc = "done"]
  /\ UNCHANGED <<rk30_wd_sc, softc, handlers, aret, rpc, shl_ub, scanvars>>

rk30_wd_watchdog_fn(c) ==
  \/ fn_lock(c)
  \/ fn_resolve(c)
  \/ fn_arm_torr(c)
  \/ fn_arm_ctrl(c)
  \/ fn_arm_crr(c)
  \/ fn_off_ctrl(c)
  \/ fn_unlock(c)
  \/ fn_cant_unlock(c)
  \/ fn_cant_ctrl(c)

\* -------------------------------------------------- rk30_wd_watchdog_reset
\* Mutant: without a controller the function falls into the busy-wait.
rs_enter_Spins ==
  /\ rpc \in {"idle", "returned"}
  /\ rpc' = IF rk30_wd_sc = NULL THEN "spin" ELSE "torr"
  /\ UNCHANGED <<rk30_wd_sc, softc, handlers, aret, regs, writes, calls, shl_ub, scanvars>>

\* if (rk30_wd_sc == NULL) { printf(); return; }
rs_enter ==
  /\ rpc \in {"idle", "returned"}
  /\ rpc' = IF rk30_wd_sc = NULL THEN "returned" ELSE "torr"
  /\ UNCHANGED <<rk30_wd_sc, softc, handlers, aret, regs, writes, calls, shl_ub, scanvars>>

\* Mutant: the write waits until the controller mutex is unowned.
rs_torr_Locked ==
  /\ rpc = "torr"
  /\ softc[rk30_wd_sc].mtx_owner = NULL
  /\ BusWrite("reset", 0, rk30_wd_sc, WDOG_TORR,
              Shl(wd_intervals[0].value, WDOG_TORR_INTVL_SHIFT))
  /\ rpc' = "ctrl"
  /\ UNCHANGED <<rk30_wd_sc, softc, handlers, aret, calls, shl_ub, scanvars>>

\* RK30_WDT_WRITE(rk30_wd_sc, WDOG_TORR, wd_intervals[0].value << SHIFT);
rs_torr ==
  /\ rpc = "torr"
  /\ BusWrite("reset", 0, rk30_wd_sc, WDOG_TORR,
              Shl(wd_intervals[0].value, WDOG_TORR_INTVL_SHIFT))
  /\ rpc' = "ctrl"
  /\ UNCHANGED <<rk30_wd_sc, softc, handlers, aret, calls, shl_ub, scanvars>>

\* Mutant: no busy-wait, the function returns after the CTRL write.
rs_ctrl_Returns ==
  /\ rpc = "ctrl"
  /\ BusWrite("reset", 0, rk30_wd_sc, WDOG_CTRL, WDOG_CTRL_ARM)
  /\ rpc' = "returned"
  /\ UNCHANGED <<rk30_wd_sc, softc, handlers, aret, calls, shl_ub, scanvars>>

\* RK30_WDT_WRITE(rk30_wd_sc, WDOG_CTRL, EN | RSP_MODE | RST_PULSE); for (;;);
rs_ctrl ==
  /\ rpc = "ctrl"
  /\ BusWrite("reset", 0, rk30_wd_sc, WDOG_CTRL, WDOG_CTRL_ARM)
  /\ rpc' = "spin"
  /\ UNCHANGED <<rk30_wd_sc, softc, handlers, aret, calls, shl_ub, scanvars>>

rk30_wd_watchdog_reset == rs_enter \/ rs_torr \/ rs_ctrl

\* ---------------------------------------------------------- specification
Next ==
  \/ \E d \in Devs : rk30_wd_attach(d)
  \/ fn_invoke
  \/ \E c \in 1..MaxCalls : rk30_wd_watchdog_fn(c)
  \/ rk30_wd_watchdog_reset

Spec == Init /\ [][Next]_vars

\* Attach calls that overlap, each run statement by statement, beside the
\* reset function, which reads rk30_wd_sc.
NextAttach ==
  \/ \E d \in Devs : rk30_wd_attach_steps(d)
  \/ rk30_wd_watchdog_reset

\* Concurrent handler calls with the reset function never called, under a
\* scheduler that keeps running every thread inside the handler: a call that
\* can take its next step eventually takes it.
NextCalls ==
  \/ \E d \in Devs : rk30_wd_attach(d)
  \/ fn_invoke
  \/ \E c \in 1..MaxCalls : rk30_wd_watchdog_fn(c)

FairSpec ==
  /\ Init
  /\ [][NextCalls]_vars
  /\ \A c \in 1..MaxCalls : WF_vars(rk30_wd_watchdog_fn(c))

SpecAttach == Init /\ [][NextAttach]_vars

\* Handler calls one at a time, over every value of the WD_INTERVAL field.
NextSeq ==
  \/ \E d \in Devs : rk30_wd_attach(d)
  \/ fn_invoke_seq
  \/ \E c \in 1..MaxCalls : rk30_wd_watchdog_fn(c)

SpecSeq == Init /\ [][NextSeq]_vars

\* ------------------------------------------------- the table scan by itself
\* The scan of rk30_wd_watchdog_fn run one loop test at a time on a requested
\* ms drawn from MsSamples: every threshold, its two neighbours, and every
\* quotient a defined shift produces.
Thresholds == {wd_intervals[k].milliseconds : k \in 0..(SentinelIdx - 1)}

MsSamples ==
  {0} \cup Thresholds \cup {t - 1 : t \in Thresholds} \cup {t + 1 : t \in Thresholds}
      \cup {TrueMs(e) : e \in 0..(ShiftWidth - 1)}

InitScan ==
  /\ rk30_wd_sc = NULL
  /\ softc    = [d \in Devs |->
                   [dev |-> NULL, res |-> FALSE, mtx_init |-> FALSE, mtx_owner |-> NULL]]
  /\ handlers = {}
  /\ aret     = [d \in Devs |-> "none"]
  /\ regs     = [d \in Devs |-> [r \in Regs |-> IF r = WDOG_CTRL THEN WDOG_CTRL_OFF ELSE 0]]
  /\ writes   = << >>
  /\ calls    = << >>
  /\ rpc      = "idle"
  /\ shl_ub   = "unset"
  /\ scan_ms  \in MsSamples
  /\ scan_i   = 0
  /\ scan_pc  = "scan"

\* the loop test is true: i++
scan_step ==
  /\ scan_pc = "scan"
  /\ ScanCond(scan_i, scan_ms)
  /\ scan_i' = scan_i + 1
  /\ UNCHANGED <<scan_ms, scan_pc, drvvars>>

\* the loop test is false: if (wd_intervals[i].milliseconds) ... else ...
scan_stop ==
  /\ scan_pc = "scan"
  /\ ~ScanCond(scan_i, scan_ms)
  /\ scan_pc' = IF Matched(scan_i) THEN "hit" ELSE "miss"
  /\ UNCHANGED <<scan_ms, scan_i, drvvars>>

NextScan == scan_step \/ scan_stop

SpecScan == InitScan /\ [][NextScan]_vars

\* ================================================================ claims
\* The writes of handler call c, in order, as <<register, value>> pairs.
CallWrites(c) ==
  LET ws == SelectSeq(writes, LAMBDA w : w.fn = "fn" /\ w.call = c)
  IN  [k \in 1..Len(ws) |-> <<ws[k].reg, ws[k].val>>]

\* The writes of the reset function, in order.
ResetWrites ==
  LET ws == SelectSeq(writes, LAMBDA w : w.fn = "reset")
  IN  [k \in 1..Len(ws) |-> <<ws[k].reg, ws[k].val>>]

\* The real entries whose threshold covers ms.
Covering(ms) == {k \in 0..(SentinelIdx - 1) : wd_intervals[k].milliseconds >= ms}

\* k is the covering entry with the smallest threshold.
SmallestCovering(k, ms) ==
  /\ k \in Covering(ms)
  /\ \A j \in Covering(ms) : wd_intervals[k].milliseconds <= wd_intervals[j].milliseconds

\* C6: for every ms from 0 up to the largest threshold the scan ends on a
\* real entry, the one with the smallest threshold >= ms: a threshold selects
\* its own entry, a value between two thresholds the higher one, 0 index 0.
\* The scan as the handler runs it in one piece agrees.
C6_SmallestCoveringEntry ==
  scan_pc \in {"hit", "miss"} /\ scan_ms <= MaxThresholdMs =>
    /\ scan_pc = "hit"
    /\ SmallestCovering(scan_i, scan_ms)
    /\ scan_ms \in Thresholds => wd_intervals[scan_i].milliseconds = scan_ms
    /\ scan_ms = 0 => scan_i = 0
    /\ Scan(0, scan_ms) = scan_i

\* C6 witness: the scan of the exact boundary 10920 has ended on entry 2.
C6_Witness ==
  /\ scan_pc = "hit"
  /\ scan_i = 2
  /\ scan_ms = wd_intervals[2].milliseconds

\* C7: for every ms above the largest threshold the scan never passes the
\* sentinel, never ends on a real entry, and ends on the sentinel: no match.
C7_NoMatchAboveMax ==
  scan_ms > MaxThresholdMs =>
    /\ scan_i <= SentinelIdx
    /\ scan_pc # "hit"
    /\ scan_pc = "miss" => scan_i = SentinelIdx /\ Scan(0, scan_ms) = SentinelIdx

\* C7 witness: the scan of 89,456,641 has stopped on the sentinel.
C7_Witness ==
  /\ scan_pc = "miss"
  /\ scan_ms = MaxThresholdMs + 1
  /\ scan_i = SentinelIdx

\* Handler calls by their state.
CallIds     == 1..Len(calls)
Masked(c)   == MaskInterval(calls[c].cmd)
Resolved(c) == calls[c].pc \notin {"lock", "resolve"}
Done(c)     == calls[c].pc = "done"

\* s is an initial part of t.
IsPrefix(s, t) == Len(s) <= Len(t) /\ \A k \in 1..Len(s) : s[k] = t[k]

\* C1: in the order the bus sees the writes, nothing written by another
\* handler call lies between two writes of one arming call: TORR, CTRL and CRR
\* of an arming call are contiguous among the handler's writes.
C1_ArmWritesContiguous ==
  \A j, l, k \in 1..Len(writes) :
    /\ j < l /\ l < k
    /\ writes[j].fn = "fn" /\ writes[k].fn = "fn" /\ writes[l].fn = "fn"
    /\ writes[j].call = writes[k].call
    /\ calls[writes[j].call].path = "arm"
    => writes[l].call = writes[j].call

\* C2: every register write of the handler, on each of its paths, is made
\* while the writing call owns the controller mutex, so at most one call is
\* between its first and its last register write.
C2_WritesUnderMutex ==
  /\ \A k \in 1..Len(writes) :
        writes[k].fn = "fn" => writes[k].owner = writes[k].call
  /\ Cardinality({c \in CallIds : calls[c].pc \in {"arm_ctrl", "arm_crr"}}) <= 1

\* C3: a call whose masked exponent e is not zero and has floor(2^e / 10^6)
\* above the largest threshold ends on the cannot-arm path: its one register
\* write is CTRL = 0x0a and it leaves *error as the caller preset it, never
\* turned into the success value.
C3_CannotArmAboveMax ==
  \A c \in CallIds :
    Done(c) /\ Masked(c) > 0 /\ TrueMs(Masked(c)) > MaxThresholdMs =>
      /\ calls[c].path = "cant"
      /\ CallWrites(c) = << <<0, 10>> >>
      /\ calls[c].error = calls[c].errin

\* What an arming call writes once ms is derived: the encoded interval of the
\* smallest covering entry to TORR (0x04), 0x13 to CTRL (0x00), 0x76 to CRR
\* (0x0c).
ArmSequence(ms) ==
  LET k == CHOOSE k \in 0..(SentinelIdx - 1) : SmallestCovering(k, ms)
  IN  << <<4, wd_intervals[k].value>>, <<0, 19>>, <<12, 118>> >>

\* C4: a call with a non-zero masked exponent whose derived ms resolves to a
\* table entry writes exactly TORR = encoded interval, then CTRL = 0x13, then
\* CRR = 0x76, and ends with *error = 0; exponent 33 derives 8589 ms, in the
\* 10,920 bucket, and writes 2 to TORR first.
C4_ArmSequence ==
  \A c \in CallIds :
    Resolved(c) /\ Masked(c) > 0 /\ calls[c].ms <= MaxThresholdMs =>
      /\ IsPrefix(CallWrites(c), ArmSequence(calls[c].ms))
      /\ Done(c) => CallWrites(c) = ArmSequence(calls[c].ms) /\ calls[c].error = 0
      /\ Masked(c) = 33 =>
           calls[c].ms = 8589 /\ IsPrefix(CallWrites(c), << <<4, 2>>, <<0, 19>>, <<12, 118>> >>)

\* C4 witness: a call with exponent 33 and a non-zero preset error has
\* returned after its three writes.
C4_Witness ==
  \E c \in CallIds :
    /\ Done(c) /\ Masked(c) = 33 /\ calls[c].errin # 0
    /\ Len(CallWrites(c)) = 3

\* C5 as stated: a call with masked exponent 0 ends with success reported
\* (*error = 0) and CTRL = 0x0a written.
C5_DisarmReportsSuccess ==
  \A c \in CallIds :
    Done(c) /\ Masked(c) = 0 =>
      /\ calls[c].error = 0
      /\ \E k \in 1..Len(CallWrites(c)) : CallWrites(c)[k] = <<0, 10>>

\* C5 amended: a call with masked exponent 0 makes one register write,
\* CTRL = 0x0a, whatever the state of the peripheral and whatever calls came
\* before, and leaves *error as the caller preset it (no failure signalled;
\* success is reported exactly when the preset was 0).
C5_DisarmWritesOffKeepsError ==
  \A c \in CallIds :
    Masked(c) = 0 =>
      /\ IsPrefix(CallWrites(c), << <<0, 10>> >>)
      /\ calls[c].error = calls[c].errin
      /\ Done(c) => CallWrites(c) = << <<0, 10>> >>

\* C5 witness: a disarming call with a non-zero preset error has returned, and
\* its write came right after the CRR write of an arming call (the
\* peripheral was armed).
C5_Witness ==
  \E c \in CallIds, k \in 2..Len(writes) :
    /\ Done(c) /\ Masked(c) = 0 /\ calls[c].errin # 0
    /\ writes[k].fn = "fn" /\ writes[k].call = c
    /\ writes[k - 1].reg = 12
    /\ regs[calls[c].sc][0] = 10

\* C8: once the reset function is in its busy-wait and every handler call
\* that was in flight has returned (none was invoked after the reset function
\* was entered), CTRL holds the enable pattern 0x13.
C8_ResetLeavesEnabled ==
  (/\ rpc = "spin"
   /\ \A c \in CallIds : Done(c) /\ ~calls[c].late)
    => regs[rk30_wd_sc][0] = 19

\* C9: on a bound controller the reset function writes TORR = 0, then
\* CTRL = 0x13, and nothing else (never CRR); from its busy-wait it takes no
\* further step, and it returns only from the test that found no controller.
C9_ResetWritesThenSpins ==
  /\ [](/\ IsPrefix(ResetWrites, << <<4, 0>>, <<0, 19>> >>)
        /\ rpc = "ctrl" => ResetWrites = << <<4, 0>> >>
        /\ rpc = "spin" => ResetWrites = << <<4, 0>>, <<0, 19>> >>
        /\ rpc = "returned" => ResetWrites = << >>)
  /\ [][/\ rpc = "spin" => rpc' = "spin" /\ ResetWrites' = ResetWrites
        /\ rpc' = "returned" /\ rpc # "returned" => rk30_wd_sc = NULL /\ rpc = "idle"]_vars

\* C9 witness: the reset function is in its busy-wait after both writes.
C9_Witness ==
  /\ rpc = "spin"
  /\ Len(ResetWrites) = 2
  /\ rk30_wd_sc # NULL

\* C10: the reset function needs no mutex: each of its two writes can be
\* made in every state in which it is the next thing to do, whoever owns the
\* controller mutex, and no step of the reset function touches a mutex.
C10_ResetIgnoresMutex ==
  /\ [](/\ rpc = "torr" => ENABLED rs_torr
        /\ rpc = "ctrl" => ENABLED rs_ctrl)
  /\ [][rpc' # rpc => softc' = softc]_vars

\* C10 witness: the reset function made both writes while a handler call,
\* still holding it now, owned the mutex.
C10_Witness ==
  /\ rpc = "spin"
  /\ \E c \in CallIds :
        /\ LockedBy(c)
        /\ \A k \in 1..Len(writes) : writes[k].fn = "reset" => writes[k].owner = c

\* C11: while no attach has succeeded (rk30_wd_sc is NULL) a call of the
\* reset function returns: the only step it takes ends in "returned", never
\* in a write or the busy-wait, changes no register and leaves rk30_wd_sc
\* NULL; and as long as rk30_wd_sc is NULL nothing at all has been written.
C11_ResetUnboundReturns ==
  /\ [](rk30_wd_sc = NULL => rpc \in {"idle", "returned"} /\ writes = << >>)
  /\ [][rk30_wd_sc = NULL /\ rpc' # rpc =>
          /\ rpc' = "returned"
          /\ writes' = writes
          /\ regs' = regs
          /\ rk30_wd_sc' = NULL]_vars

\* C11 witness: the reset function has returned with no controller bound (an
\* attach was tried and failed) and nothing written.
C11_Witness ==
  /\ rpc = "returned"
  /\ rk30_wd_sc = NULL
  /\ \E d \in Devs : aret[d] = "ENXIO"
  /\ writes = << >>

\* C12: once an attach has succeeded, every later attach call returns ENXIO
\* as its whole effect: it writes no register and leaves rk30_wd_sc, every
\* softc (the bound controller's mutex with its owner included) and the
\* registered handlers as they were.
C12_LaterAttachFails ==
  [][\A d \in Devs :
       (\E b \in Devs : aret[b] = "ok") /\ aret[d] = "none" /\ aret'[d] # "none" =>
          /\ aret'[d] = "ENXIO"
          /\ rk30_wd_sc' = rk30_wd_sc
          /\ softc' = softc
          /\ handlers' = handlers
          /\ writes' = writes
          /\ regs' = regs]_vars

\* C12 witness: an attach of another device has failed on the test of
\* rk30_wd_sc (its softc was never touched) while a handler call of the bound
\* controller holds the mutex.
C12_Witness ==
  \E b \in Devs, d \in Devs :
     /\ aret[b] = "ok" /\ rk30_wd_sc = b /\ handlers = {b}
     /\ aret[d] = "ENXIO" /\ softc[d].dev = NULL
     /\ \E c \in 1..Len(calls) : softc[b].mtx_owner = c

\* C13: at most one attach call returns success and rk30_wd_sc is assigned
\* by at most one call, however the attach calls are interleaved.
C13_SingleInstance ==
  /\ Cardinality({d \in Devs : aret[d] = "ok"}) <= 1
  /\ Cardinality({d \in Devs : aret[d] \in {"init", "register", "ok"}}) <= 1

\* The WD_INTERVAL field of the cmd a call was given, the mathematical
\* 2^e / 1000000 of every value of the field (saturated above the table),
\* and whether a call is on its way through, or past, the three arm writes.
Field(c)  == calls[c].cmd % (WD_INTERVAL + 1)
TrueMsAll == [e \in 0..WD_INTERVAL |-> TrueMs(e)]
Arming(c) == calls[c].pc \in {"arm_torr", "arm_ctrl", "arm_crr"} \/ calls[c].path = "arm"

\* C14: for every non-zero value e of the masked field, 64 and above
\* included, a call that arms programs an entry whose threshold is at least
\* the mathematical 2^e / 1000000 ms, and a call whose mathematical timeout
\* is above the largest threshold (89,456,640 ms) does not arm.
C14_ArmedBucketCovers ==
  \A c \in CallIds :
    Resolved(c) /\ Field(c) > 0 =>
      /\ Arming(c) => wd_intervals[calls[c].i].milliseconds >= TrueMsAll[Field(c)]
      /\ TrueMsAll[Field(c)] > MaxThresholdMs => ~Arming(c)

\* The last value a handler call wrote to register r of controller sc (the
\* initial value of the register if none did).
RECURSIVE LastFnWrite(_, _, _)
LastFnWrite(k, sc, r) ==
  IF k = 0 THEN (IF r = WDOG_CTRL THEN WDOG_CTRL_OFF ELSE 0)
  ELSE IF writes[k].fn = "fn" /\ writes[k].sc = sc /\ writes[k].reg = r
         THEN writes[k].val
         ELSE LastFnWrite(k - 1, sc, r)

\* The entry the scan has to end on for a derived ms within the table.
EntryFor(ms) == CHOOSE k \in Covering(ms) : \A j \in Covering(ms) : k <= j

\* C15: after handler calls made one at a time have all returned, the last
\* value written to CTRL (and the register itself) is 0x13 if and only if the
\* most recent call had a non-zero masked cmd whose derived ms is covered by
\* a table entry, and 0x0a otherwise; when it is 0x13, the last value
\* written to TORR is the encoded interval of that call's entry.
C15_LastCallDecides ==
  (calls # << >> /\ \A c \in CallIds : Done(c)) =>
    LET L     == Len(calls)
        sc    == calls[L].sc
        armed == Field(L) > 0 /\ Covering(calls[L].ms) # {}
    IN  /\ LastFnWrite(Len(writes), sc, WDOG_CTRL) =
             (IF armed THEN WDOG_CTRL_ARM ELSE WDOG_CTRL_OFF)
        /\ regs[sc][WDOG_CTRL] = LastFnWrite(Len(writes), sc, WDOG_CTRL)
        /\ armed =>
             /\ LastFnWrite(Len(writes), sc, WDOG_TORR) =
                  Shl(wd_intervals[EntryFor(calls[L].ms)].value, WDOG_TORR_INTVL_SHIFT)
             /\ regs[sc][WDOG_TORR] = LastFnWrite(Len(writes), sc, WDOG_TORR)

\* C15 witness: two calls, one after the other, both armed, with different
\* entries; TORR holds the second call's interval.
C15_Witness ==
  /\ Len(calls) = 2 /\ Done(1) /\ Done(2)
  /\ calls[1].path = "arm" /\ calls[2].path = "arm"
  /\ calls[1].i # calls[2].i
  /\ regs[calls[2].sc][WDOG_TORR] = wd_intervals[calls[2].i].value

\* C16: two calls whose cmd agree on the WD_INTERVAL field and differ in
\* other bits, given the same *error, make the same register writes and
\* leave the same *error; and a call whose cmd has flag bits and a zero
\* field makes the one write CTRL = 0x0a of the disarm path.
C16_OnlyIntervalFieldMatters ==
  /\ \A c \in CallIds, k \in CallIds :
        /\ Done(c) /\ Done(k)
        /\ calls[c].cmd # calls[k].cmd
        /\ Field(c) = Field(k)
        /\ calls[c].errin = calls[k].errin
        => /\ CallWrites(c) = CallWrites(k)
           /\ calls[c].error = calls[k].error
           /\ calls[c].path = calls[k].path
  /\ \A c \in CallIds :
        Done(c) /\ calls[c].cmd # 0 /\ Field(c) = 0 =>
          /\ calls[c].path = "off"
          /\ CallWrites(c) = << <<WDOG_CTRL, WDOG_CTRL_OFF>> >>

\* C16 witness: a call with cmd 0 and a call with only a flag bit set, given
\* the same non-zero *error, have both returned from the disarm path.
C16_Witness ==
  \E c \in CallIds, k \in CallIds :
     /\ Done(c) /\ Done(k)
     /\ calls[c].cmd = 0 /\ calls[k].cmd > WD_INTERVAL /\ Field(k) = 0
     /\ calls[c].errin # 0 /\ calls[k].errin = calls[c].errin
     /\ calls[c].path = "off" /\ calls[k].path = "off"

\* C17: the handler calls' writes to a register follow the order in which
\* the calls acquired the mutex (no call writes a register after a call that
\* locked later has written it), and once every call has returned the last
\* CTRL value written is that of the call that locked last: 0x13 if that
\* call armed, 0x0a if not.
C17_LockOrderIsWriteOrder ==
  /\ \A j \in 1..Len(writes), k \in 1..Len(writes) :
        /\ j < k
        /\ writes[j].fn = "fn" /\ writes[k].fn = "fn"
        /\ writes[j].sc = writes[k].sc /\ writes[j].reg = writes[k].reg
        => calls[writes[j].call].lockord <= calls[writes[k].call].lockord
  /\ (calls # << >> /\ \A c \in CallIds : Done(c)) =>
        \A c \in CallIds :
          (\A k \in CallIds : calls[k].lockord <= calls[c].lockord) =>
            LastFnWrite(Len(writes), calls[c].sc, WDOG_CTRL) =
              (IF calls[c].path = "arm" THEN WDOG_CTRL_ARM ELSE WDOG_CTRL_OFF)

\* The three writes of a complete arm sequence, whatever the interval.
IsArmWrites(ws) ==
  /\ Len(ws) = 3
  /\ ws[1][1] = WDOG_TORR
  /\ ws[2] = <<WDOG_CTRL, WDOG_CTRL_ARM>>
  /\ ws[3] = <<WDOG_CRR, WDOG_CRR_MAGIC>>

\* C18: *error is written only on the arm path: at any moment it is the
\* caller's value or 0, it differs from the caller's value only once the
\* call has made the three arm writes, and a call that has returned leaves 0
\* if it made the three arm writes and the caller's value if it took the
\* disarm or the cannot-arm path.
C18_ErrorOnlyOnArm ==
  \A c \in CallIds :
    /\ calls[c].error \in {calls[c].errin, 0}
    /\ calls[c].error # calls[c].errin => IsArmWrites(CallWrites(c))
    /\ Done(c) =>
         IF IsArmWrites(CallWrites(c))
           THEN calls[c].error = 0 /\ calls[c].path = "arm"
           ELSE calls[c].error = calls[c].errin /\ calls[c].path \in {"off", "cant"}

\* C18 witness: with the same non-zero *error given, one call has returned
\* from the arm path with 0 and another from the cannot-arm path with the
\* value unchanged.
C18_Witness ==
  \E c \in CallIds, k \in CallIds :
     /\ Done(c) /\ Done(k)
     /\ calls[c].errin = ENXIO /\ calls[k].errin = ENXIO
     /\ calls[c].path = "arm" /\ calls[c].error = 0
     /\ calls[k].path = "cant" /\ calls[k].error = ENXIO

\* C20: a call on the disarm path (masked cmd 0) or on the cannot-arm path
\* makes exactly one write, CTRL = 0x0a; only calls on the arm path write
\* TORR or CRR; and the step in which a disarming call writes leaves TORR
\* and CRR of its controller as they were.
C20_DisarmWritesCtrlOnly ==
  /\ [](/\ \A c \in CallIds :
             calls[c].path \in {"off", "cant"} =>
               /\ IsPrefix(CallWrites(c), << <<WDOG_CTRL, WDOG_CTRL_OFF>> >>)
               /\ Done(c) => CallWrites(c) = << <<WDOG_CTRL, WDOG_CTRL_OFF>> >>
         /\ \A k \in 1..Len(writes) :
             writes[k].fn = "fn" /\ writes[k].reg \in {WDOG_TORR, WDOG_CRR} =>
               calls[writes[k].call].path = "arm")
  /\ [][\A c \in CallIds :
          calls'[c].path \in {"off", "cant"} /\ CallWrites(c)' # CallWrites(c) =>
            /\ regs'[calls[c].sc][WDOG_TORR] = regs[calls[c].sc][WDOG_TORR]
            /\ regs'[calls[c].sc][WDOG_CRR] = regs[calls[c].sc][WDOG_CRR]]_vars

\* C20 witness: a call armed entry 2, a later call disarmed, and TORR still
\* holds 2 while CTRL holds 0x0a.
C20_Witness ==
  /\ Len(calls) = 2 /\ Done(1) /\ Done(2)
  /\ calls[1].path = "arm" /\ calls[1].i = 2
  /\ calls[2].path = "off"
  /\ rpc = "idle"
  /\ regs[calls[1].sc][WDOG_TORR] = wd_intervals[2].value
  /\ regs[calls[1].sc][WDOG_CTRL] = WDOG_CTRL_OFF
  /\ CallWrites(2) = << <<WDOG_CTRL, WDOG_CTRL_OFF>> >>

\* The positions of a call between its mtx_lock and its mtx_unlock.
Held == {"resolve", "arm_torr", "arm_ctrl", "arm_crr", "off_ctrl", "unlock", "cant_unlock"}

\* C19: a call owns the mutex of its controller exactly while it is between
\* its mtx_lock and its one mtx_unlock (so the mutex is free whenever no call
\* is in progress and is never released by a call that does not own it), the
\* scan never goes past the 17th entry, a call gives the mutex up only in an
\* unlock step, and under fair scheduling every call invoked returns.
C19_CallsReturnMutexFreed ==
  /\ [](/\ \A c \in CallIds :
             /\ LockedBy(c) <=> calls[c].pc \in Held
             /\ calls[c].i <= SentinelIdx
             /\ Done(c) => calls[c].lockord > 0
         /\ \A d \in Devs :
             (\A k \in CallIds : calls[k].pc \in {"lock", "done"}) =>
               softc[d].mtx_owner = NULL)
  /\ [][\A c \in CallIds :
          LockedBy(c) /\ ~LockedBy(c)' =>
            /\ calls[c].pc \in {"unlock", "cant_unlock"}
            /\ softc'[calls[c].sc].mtx_owner = NULL]_vars
  /\ \A c \in 1..MaxCalls : (c <= Len(calls)) ~> (c <= Len(calls) /\ Done(c))

\* C19 witness: two calls were in progress at once, one waiting for the mutex
\* the other held; both have returned, one from the cannot-arm path, and the
\* mutex is free.
C19_Witness ==
  /\ Len(calls) = 2 /\ Done(1) /\ Done(2)
  /\ calls[1].lockord = 2 /\ calls[2].lockord = 1
  /\ calls[1].path = "cant"
  /\ \A d \in Devs : softc[d].mtx_owner = NULL

====
